---- MODULE Spec2Model ----
(***************************************************************************)
(* A model of the genetic-algorithm library: the two Result types, the     *)
(* population store, the selection and mutation operators and the          *)
(* generational loop of ga.core.run.                                       *)
(*                                                                         *)
(* Representation.                                                         *)
(*  - A Python value that may be None is a sequence of length <= 1:        *)
(*    None is <<>> and a value x is <<x>>.                                 *)
(*  - The outcome of a call is [ret, exc]: either it returned (ret = <<r>>)*)
(*    or it raised (exc = <<name of the exception>>).                      *)
(*  - An individual is [index, point, evaluation]; a population (a numpy   *)
(*    structured array) is a sequence of individuals.  Position p of the   *)
(*    array is element p + 1 of the sequence.                              *)
(*  - Coordinates and evaluations are floats in the code and integers      *)
(*    here.  A coordinate counts lattice steps of 1 / Unit, so that the    *)
(*    elementwise mean of a group of parents is exact.                     *)
(*  - A rate (mutation_rate, recombination_rate) is a fraction <<n, d>>    *)
(*    with d > 0.                                                          *)
(*  - The destructuring "value, err = f(...)" of the callers is modelled   *)
(*    as reading the fields (value, error) of the returned Result, which   *)
(*    is what utils.result.Result (a NamedTuple) and the tuples of         *)
(*    test/core_test.py give.  The class of ga/types/result.py, which      *)
(*    population.py, mutation.py and core.py import, defines no __iter__,  *)
(*    so Python raises TypeError where one of its instances is             *)
(*    destructured; the model follows the protocol the callers are written *)
(*    for.  The constructor's checks of that class are in TypesResult.     *)
(***************************************************************************)
EXTENDS Integers, Sequences, FiniteSets, TLC

VARIABLES
    pc,                \* position of run (ga/core.py)
    cfg,               \* the arguments of run
    population,        \* run's local `population`
    parents,           \* run's local `parents`
    children,          \* run's local `children`
    mutated_children,  \* run's local `mutated_children`
    gen,               \* the loop variable i of run
    ret,               \* what run returned: None, or the Result
    hist,              \* observations of the run for the properties; in the
                       \* second of two executions, the values that the
                       \* generator returned to the first
    call               \* the last call of a library function made directly

vars == <<pc, cfg, population, parents, children, mutated_children, gen, ret,
          hist, call>>

(***************************************************************************)
(* Bounds of the model.                                                    *)
(***************************************************************************)
MaxPop == 3
MaxGen == 2

\* The numbers of children that one call of recombine may return.
ChildCounts == {1}

(***************************************************************************)
(* Python values.                                                          *)
(***************************************************************************)
None == <<>>
Some(x) == <<x>>
Returned(r) == [ret |-> <<r>>, exc |-> <<>>]
Raised(e) == [ret |-> <<>>, exc |-> <<e>>]

RECURSIVE Pow(_, _)
Pow(b, e) == IF e = 0 THEN 1 ELSE b * Pow(b, e - 1)

RECURSIVE SumSeq(_)
SumSeq(s) == IF s = <<>> THEN 0 ELSE Head(s) + SumSeq(Tail(s))

Range(s) == {s[i] : i \in DOMAIN s}

\* The sequences of k distinct elements of S: what rng.choice(S, k,
\* replace=False) can return.
RECURSIVE InjSeqs(_, _)
InjSeqs(S, k) ==
    IF k <= 0 THEN {<<>>}
    ELSE UNION {{<<x>> \o s : s \in InjSeqs(S \ {x}, k - 1)} : x \in S}

\* The sequences of k elements of S.
RECURSIVE Seqs(_, _)
Seqs(S, k) ==
    IF k <= 0 THEN {<<>>}
    ELSE UNION {{<<x>> \o s : s \in Seqs(S, k - 1)} : x \in S}

\* floor(n * rate) for a rate <<num, den>>, den > 0, n >= 0 or num >= 0.
FloorTimes(n, rate) == (n * rate[1]) \div rate[2]

(***************************************************************************)
(* ga/types/result.py: the class Result.                                   *)
(***************************************************************************)
TypesResult(value, error) ==
    IF value # None /\ error # None THEN Raised("ValueError")
    ELSE IF value = None /\ error = None THEN Raised("ValueError")
    ELSE Returned([value |-> value, error |-> error])

TypesOk(value) == TypesResult(value, None)

TypesError(error) == TypesResult(None, error)

(***************************************************************************)
(* utils/result.py: the NamedTuple Result.                                 *)
(***************************************************************************)
UtilsResult(value, error) == Returned([value |-> value, error |-> error])

UtilsOk(value) == UtilsResult(value, None)

UtilsError(error) == UtilsResult(None, error)

\* is_ok and is_error are the same in both classes.
is_ok(r) == r.value # None

is_error(r) == r.error # None

(***************************************************************************)
(* Individuals and populations.                                            *)
(***************************************************************************)
\* Lattice steps per unit of the search space: every mean of two points
\* taken in MaxGen generations is on the lattice.
Unit == Pow(2, MaxGen)

Individual(index, point, evaluation) ==
    [index |-> index, point |-> point, evaluation |-> evaluation]

Indices(pop) == {pop[i].index : i \in DOMAIN pop}

Evaluations(pop) == {pop[i].evaluation : i \in DOMAIN pop}

\* The minimum of a non-empty set of integers.
MinOf(S) == CHOOSE m \in S : \A x \in S : m <= x

\* Lexicographic order of two vectors of the same length.
RECURSIVE VecLess(_, _)
VecLess(u, v) ==
    IF u = <<>> \/ v = <<>> THEN FALSE
    ELSE IF Head(u) # Head(v) THEN Head(u) < Head(v)
    ELSE VecLess(Tail(u), Tail(v))

\* The order of np.sort(population, order="evaluation"): by evaluation, ties
\* broken by the remaining fields in the order of the dtype (index, point).
RecLess(a, b) ==
    IF a.evaluation # b.evaluation THEN a.evaluation < b.evaluation
    ELSE IF a.index # b.index THEN a.index < b.index
    ELSE VecLess(a.point, b.point)

RECURSIVE Insert(_, _)
Insert(x, s) ==
    IF s = <<>> THEN <<x>>
    ELSE IF RecLess(x, Head(s)) THEN <<x>> \o s
    ELSE <<Head(s)>> \o Insert(x, Tail(s))

RECURSIVE SortByEvaluation(_)
SortByEvaluation(pop) ==
    IF pop = <<>> THEN <<>>
    ELSE Insert(Head(pop), SortByEvaluation(Tail(pop)))

\* The Python slice s[:k].
SliceTo(s, k) ==
    LET n == Len(s)
        stop == IF k >= 0 THEN (IF k < n THEN k ELSE n)
                ELSE (IF n + k > 0 THEN n + k ELSE 0)
    IN  SubSeq(s, 1, stop)

(***************************************************************************)
(* The fitness function (an argument of run) and its batch evaluation.     *)
(***************************************************************************)
Fitness(func, point) ==
    IF func = "sum_of_squares"
    THEN SumSeq([i \in DOMAIN point |-> point[i] * point[i]])
    ELSE 0 - SumSeq(point)

\* A batch evaluation that writes nothing.
Evaluate_nothing(func, pop) == pop

\* population["evaluation"] = vec_func(population["point"])
Evaluate(func, pop) ==
    [i \in DOMAIN pop |-> [pop[i] EXCEPT !.evaluation = Fitness(func, pop[i].point)]]

(***************************************************************************)
(* ga/population.py                                                        *)
(***************************************************************************)
\* create_individual_dtype accepting every dimension.
create_individual_dtype_any(dim) == TypesOk(Some(dim))

create_individual_dtype(dim) ==
    IF dim <= 0 THEN TypesError(Some("Dimension must be greater than zero"))
    ELSE TypesOk(Some(dim))

\* What distribution_function(lo, hi, size=(population_size, dim)) can
\* return: population_size rows of dim coordinates in [lo, hi].
Samples(boundaries, population_size, dim) ==
    LET coords == {c * Unit : c \in boundaries[1] .. boundaries[2]}
    IN  Seqs(Seqs(coords, dim), population_size)

\* The calls of the generator that initialize_population makes: one call of
\* distribution_function (lines 77-85), after the three checks.
InitializeDrawCount(dim, boundaries, population_size) ==
    IF boundaries[1] < boundaries[2] /\ population_size >= 0 /\ dim > 0
    THEN 1 ELSE 0

\* initialize_population numbering the individuals from 1.
initialize_population_from_one(sample, dim, boundaries, population_size) ==
    IF boundaries[1] >= boundaries[2]
    THEN TypesError(Some("Invalid boundaries: min must be less than max"))
    ELSE IF population_size < 0
    THEN TypesError(Some("Population size must be non-negative"))
    ELSE LET dt == create_individual_dtype(dim).ret[1]
         IN  IF dt.error # None THEN TypesError(dt.error)
             ELSE TypesOk(Some([i \in DOMAIN sample |->
                                  Individual(i, sample[i], 0)]))

\* `sample` is the matrix that the call of distribution_function returns; the
\* call is made only when the three checks pass.
initialize_population(sample, dim, boundaries, population_size) ==
    IF boundaries[1] >= boundaries[2]
    THEN TypesError(Some("Invalid boundaries: min must be less than max"))
    ELSE IF population_size < 0
    THEN TypesError(Some("Population size must be non-negative"))
    ELSE LET dt == create_individual_dtype(dim).ret[1]
         IN  IF dt.error # None THEN TypesError(dt.error)
             ELSE TypesOk(Some([i \in DOMAIN sample |->
                                  Individual(i - 1, sample[i], 0)]))

(***************************************************************************)
(* ga/selection.py                                                         *)
(***************************************************************************)
\* min(group, key=lambda idx: population[idx]["evaluation"]): the first
\* position of the group with the least evaluation.
GroupWinner_greatest(pop, group) ==
    LET i == CHOOSE i \in DOMAIN group :
                 \A j \in DOMAIN group :
                     pop[group[i]].evaluation >= pop[group[j]].evaluation
    IN  group[i]

GroupWinner(pop, group) ==
    LET i == CHOOSE i \in DOMAIN group :
                 /\ \A j \in DOMAIN group :
                        pop[group[i]].evaluation <= pop[group[j]].evaluation
                 /\ \A j \in 1 .. i - 1 :
                        pop[group[j]].evaluation > pop[group[i]].evaluation
    IN  group[i]

\* groups = rng.choice(selected_indices, (n_groups, n_competitors),
\* replace=False): `flat` cut into rows of n_competitors.
Reshape(flat, n_groups, n_competitors) ==
    [g \in 1 .. n_groups |->
        [c \in 1 .. n_competitors |-> flat[(g - 1) * n_competitors + c]]]

\* The draws that tournament_selection can make: selected_indices, then the
\* groups drawn from them.  No draw is made when a check fails.
TournamentDraws(pop, competition_size, n_competitors) ==
    IF \/ competition_size > Len(pop)
       \/ competition_size < n_competitors
       \/ n_competitors <= 0
    THEN {[selected |-> <<>>, groups |-> <<>>]}
    ELSE LET n_groups == competition_size \div n_competitors
         IN  UNION {{[selected |-> sel,
                      groups |-> Reshape(flat, n_groups, n_competitors)] :
                        flat \in InjSeqs(Range(sel), n_groups * n_competitors)} :
                    sel \in InjSeqs(DOMAIN pop, competition_size)}

\* The calls of the generator that tournament_selection makes: rng.choice
\* at line 118 and, unless line 121 raises, rng.choice at line 122.
TournamentDrawCount(pop, competition_size, n_competitors) ==
    IF competition_size > Len(pop) \/ competition_size < n_competitors THEN 0
    ELSE IF n_competitors = 0 THEN 1
    ELSE 2

\* tournament_selection returning every selected individual.
tournament_selection_all_selected(pop, competition_size, n_competitors, draw) ==
    IF competition_size > Len(pop)
    THEN UtilsError(Some("Competition size larger than population"))
    ELSE IF competition_size < n_competitors
    THEN UtilsError(Some("Not enough competitors to form a single group"))
    ELSE IF n_competitors = 0
    THEN Raised("ZeroDivisionError")
    ELSE UtilsOk(Some([i \in DOMAIN draw.selected |-> pop[draw.selected[i]]]))

tournament_selection(pop, competition_size, n_competitors, draw) ==
    IF competition_size > Len(pop)
    THEN UtilsError(Some("Competition size larger than population"))
    ELSE IF competition_size < n_competitors
    THEN UtilsError(Some("Not enough competitors to form a single group"))
    ELSE IF n_competitors = 0
    THEN Raised("ZeroDivisionError")
    ELSE UtilsOk(Some([g \in DOMAIN draw.groups |->
                         pop[GroupWinner(pop, draw.groups[g])]]))

\* rank_selection without the cut to competition_size.
rank_selection_uncut(pop, competition_size) ==
    UtilsOk(Some(SortByEvaluation(pop)))

\* rank_selection keeping the greatest evaluations instead of the least.
rank_selection_worst(pop, competition_size) ==
    LET s == SortByEvaluation(pop)
    IN  UtilsOk(Some(SliceTo([i \in DOMAIN s |-> s[Len(s) + 1 - i]],
                             competition_size)))

rank_selection(pop, competition_size) ==
    UtilsOk(Some(SliceTo(SortByEvaluation(pop), competition_size)))

\* The array passed as `population`, after the call: winners is a new
\* array built from copies of the winning records.
population_after_tournament_selection(pop, competition_size, n_competitors, draw) ==
    pop

\* np.sort returns a sorted copy.
population_after_rank_selection(pop, competition_size) == pop

select(pop, competition_size, selection_type, n_competitors, draw) ==
    CASE selection_type = "TOURNAMENT" ->
             tournament_selection(pop, competition_size, n_competitors, draw)
      [] selection_type = "RANK" -> rank_selection(pop, competition_size)
      [] selection_type = "ROULETTE" ->
             UtilsError(Some("Roulette wheel selection not implemented yet"))
      [] OTHER -> UtilsError(Some("Invalid selection type"))  \* and the tag

population_after_select(pop, competition_size, selection_type, n_competitors, draw) ==
    CASE selection_type = "TOURNAMENT" ->
             population_after_tournament_selection(pop, competition_size,
                                                   n_competitors, draw)
      [] selection_type = "RANK" ->
             population_after_rank_selection(pop, competition_size)
      [] OTHER -> pop

SelectDrawCount(pop, competition_size, selection_type, n_competitors) ==
    IF selection_type = "TOURNAMENT"
    THEN TournamentDrawCount(pop, competition_size, n_competitors)
    ELSE 0

SelectDraws(pop, competition_size, selection_type, n_competitors) ==
    IF selection_type = "TOURNAMENT"
    THEN TournamentDraws(pop, competition_size, n_competitors)
    ELSE {[selected |-> <<>>, groups |-> <<>>]}

(***************************************************************************)
(* ga/mutation.py                                                          *)
(***************************************************************************)
MutationMethods == {"NORMAL", "STANDART", "UNIFORM"}

\* The noise that one coordinate can receive from rng.normal(0, 1),
\* rng.standard_t(1) or rng.uniform(-1, 1): on the lattice, a step down, no
\* change (a perturbation that the float addition absorbs) or a step up.
Noise(method) == {0 - Unit, 0, Unit}

\* The draws that mutate can make: the positions picked by rng.choice
\* (without replacement), then one noise vector for each.  No draw is made
\* when a check fails.
MutateDraws(method, pop, mutation_rate) ==
    IF \/ method \notin MutationMethods
       \/ mutation_rate[1] < 0
       \/ mutation_rate[1] > mutation_rate[2]
       \/ Len(pop) <= 0
    THEN {[picked |-> <<>>, noise |-> <<>>]}
    ELSE LET mutation_size == FloorTimes(Len(pop), mutation_rate)
             dim == Len(pop[1].point)
         IN  {[picked |-> pk, noise |-> nz] :
                 pk \in InjSeqs(DOMAIN pop, mutation_size),
                 nz \in Seqs(Seqs(Noise(method), dim), mutation_size)}

\* The calls of the generator that mutate makes: rng.choice at line 49 and
\* one call of mutation_func for each picked individual at line 51.
MutateDrawCount(method, pop, mutation_rate) ==
    IF \/ method \notin MutationMethods
       \/ mutation_rate[1] < 0
       \/ mutation_rate[1] > mutation_rate[2]
       \/ Len(pop) <= 0
    THEN 0
    ELSE 1 + FloorTimes(Len(pop), mutation_rate)

\* mutate taking its noise from a generator of its own, whose state goes on
\* from one execution of run to the next, and not from the one it is given.
mutate_ambient_noise(method, pop, mutation_rate, draw) ==
    IF method \notin MutationMethods
    THEN TypesError(Some("Invalid mutation method"))
    ELSE IF mutation_rate[1] < 0 \/ mutation_rate[1] > mutation_rate[2]
    THEN TypesError(Some("Invalid mutation rate"))
    ELSE IF Len(pop) <= 0
    THEN TypesError(Some("Population must contain at least one individual"))
    ELSE TypesOk(Some([i \in DOMAIN draw.picked |->
            LET ind == pop[draw.picked[i]]
            IN  Individual(ind.index,
                           [d \in DOMAIN ind.point |->
                               ind.point[d] + (IF hist.execution = 2 THEN Unit
                                               ELSE 0 - Unit)],
                           0)]))

\* mutate returning the whole population, the picked individuals mutated.
mutate_whole_population(method, pop, mutation_rate, draw) ==
    IF method \notin MutationMethods
    THEN TypesError(Some("Invalid mutation method"))
    ELSE IF mutation_rate[1] < 0 \/ mutation_rate[1] > mutation_rate[2]
    THEN TypesError(Some("Invalid mutation rate"))
    ELSE IF Len(pop) <= 0
    THEN TypesError(Some("Population must contain at least one individual"))
    ELSE TypesOk(Some([p \in DOMAIN pop |->
            IF p \in Range(draw.picked)
            THEN LET i == CHOOSE i \in DOMAIN draw.picked : draw.picked[i] = p
                 IN  Individual(pop[p].index,
                                [d \in DOMAIN pop[p].point |->
                                    pop[p].point[d] + draw.noise[i][d]],
                                0)
            ELSE pop[p]]))

\* mutate checking the rate before the method.
mutate_rate_first(method, pop, mutation_rate, draw) ==
    IF mutation_rate[1] < 0 \/ mutation_rate[1] > mutation_rate[2]
    THEN TypesError(Some("Invalid mutation rate"))
    ELSE IF method \notin MutationMethods
    THEN TypesError(Some("Invalid mutation method"))
    ELSE IF Len(pop) <= 0
    THEN TypesError(Some("Population must contain at least one individual"))
    ELSE TypesOk(Some([i \in DOMAIN draw.picked |->
            LET ind == pop[draw.picked[i]]
            IN  Individual(ind.index,
                           [d \in DOMAIN ind.point |-> ind.point[d] + draw.noise[i][d]],
                           0)]))

mutate(method, pop, mutation_rate, draw) ==
    IF method \notin MutationMethods
    THEN TypesError(Some("Invalid mutation method"))
    ELSE IF mutation_rate[1] < 0 \/ mutation_rate[1] > mutation_rate[2]
    THEN TypesError(Some("Invalid mutation rate"))
    ELSE IF Len(pop) <= 0
    THEN TypesError(Some("Population must contain at least one individual"))
    ELSE TypesOk(Some([i \in DOMAIN draw.picked |->
            LET ind == pop[draw.picked[i]]
            IN  Individual(ind.index,
                           [d \in DOMAIN ind.point |-> ind.point[d] + draw.noise[i][d]],
                           0)]))

\* A mutate that writes the new points and evaluations into the array it
\* was given.
population_after_mutate_in_place(method, pop, mutation_rate, draw) ==
    LET out == mutate_whole_population(method, pop, mutation_rate, draw)
    IN  IF out.ret[1].error # None THEN pop ELSE out.ret[1].value[1]

\* The array passed as `population`, after the call: rng.choice returns a
\* new array and the loop writes into that one.
population_after_mutate(method, pop, mutation_rate, draw) == pop

(***************************************************************************)
(* ga/recombination.py: recombine, as the specification describes it.      *)
(***************************************************************************)
RecombinationMethods == {"MEAN", "MAX", "MIN"}

MaxOf(S) == CHOOSE m \in S : \A x \in S : m >= x

\* One coordinate of a child: the mean, maximum or minimum of the parents'.
Blend(method, xs) ==
    CASE method = "MEAN" -> SumSeq(xs) \div Len(xs)
      [] method = "MAX"  -> MaxOf(Range(xs))
      [] method = "MIN"  -> MinOf(Range(xs))

\* The grouping is not specified: any number of groups in ChildCounts,
\* each of n_parents distinct parents, and for each child an
\* index that is its rank among the children or the index of its first
\* parent.
RecombineDraws(method, prts, n_parents) ==
    IF \/ method \notin RecombinationMethods
       \/ n_parents < 2
       \/ Len(prts) < 2
       \/ n_parents > Len(prts)
    THEN {[groups |-> <<>>, fresh |-> <<>>]}
    ELSE UNION {{[groups |-> gs, fresh |-> fr] :
                    gs \in Seqs(InjSeqs(DOMAIN prts, n_parents), n),
                    fr \in Seqs(BOOLEAN, n)} :
                n \in ChildCounts}

\* recombine draws its groups from the generator once its checks pass.
RecombineDrawCount(method, prts, n_parents) ==
    IF \/ method \notin RecombinationMethods
       \/ n_parents < 2
       \/ Len(prts) < 2
       \/ n_parents > Len(prts)
    THEN 0 ELSE 1

\* recombine checking the size of the selected population before n_parents.
recombine_population_first(method, prts, n_parents, draw) ==
    IF method \notin RecombinationMethods
    THEN TypesError(Some("Invalid recombination method"))
    ELSE IF Len(prts) < 2
    THEN TypesError(Some("Selected population must contain at least 2 individuals"))
    ELSE IF n_parents < 2
    THEN TypesError(Some("Number of parents must be at least 2"))
    ELSE IF n_parents > Len(prts)
    THEN TypesError(Some("Number of parents exceeds selected population size"))
    ELSE TypesOk(Some([k \in DOMAIN draw.groups |->
            LET g == draw.groups[k]
                dim == Len(prts[g[1]].point)
            IN  Individual(
                    IF draw.fresh[k] THEN k - 1 ELSE prts[g[1]].index,
                    [d \in 1 .. dim |->
                        Blend(method, [j \in DOMAIN g |-> prts[g[j]].point[d]])],
                    0)]))

recombine(method, prts, n_parents, draw) ==
    IF method \notin RecombinationMethods
    THEN TypesError(Some("Invalid recombination method"))
    ELSE IF n_parents < 2
    THEN TypesError(Some("Number of parents must be at least 2"))
    ELSE IF Len(prts) < 2
    THEN TypesError(Some("Selected population must contain at least 2 individuals"))
    ELSE IF n_parents > Len(prts)
    THEN TypesError(Some("Number of parents exceeds selected population size"))
    ELSE TypesOk(Some([k \in DOMAIN draw.groups |->
            LET g == draw.groups[k]
                dim == Len(prts[g[1]].point)
            IN  Individual(
                    IF draw.fresh[k] THEN k - 1 ELSE prts[g[1]].index,
                    [d \in 1 .. dim |->
                        Blend(method, [j \in DOMAIN g |-> prts[g[j]].point[d]])],
                    0)]))

(***************************************************************************)
(* ga/population.py: update_population, as the specification describes it. *)
(***************************************************************************)
\* The update that replaces an individual: the last one with its index.
UpdateFor(updates, index) ==
    LET k == CHOOSE k \in DOMAIN updates :
                 /\ updates[k].index = index
                 /\ \A j \in DOMAIN updates : updates[j].index = index => j <= k
    IN  updates[k]

AbsentIndex(pop, updates) ==
    \E k \in DOMAIN updates : updates[k].index \notin Indices(pop)

Merged(pop, updates) ==
    [i \in DOMAIN pop |->
        IF pop[i].index \in Indices(updates)
        THEN UpdateFor(updates, pop[i].index)
        ELSE pop[i]]

update_population(pop, updates) ==
    IF AbsentIndex(pop, updates)
    THEN TypesError(Some("Invalid indices in new values"))
    ELSE TypesOk(Some(Merged(pop, updates)))

\* A merge that writes the updates it can match before it reports the others.
population_after_update_partial(pop, updates) ==
    Merged(pop, updates)

\* The array passed as `population`, after the call.
population_after_update(pop, updates) ==
    IF AbsentIndex(pop, updates) THEN pop ELSE Merged(pop, updates)

(***************************************************************************)
(* ga/core.py: run.                                                        *)
(***************************************************************************)
\* `if err != None` on the outcome of a stage; a stage that raises ends run
\* as well.
Failed(out) == out.exc # None \/ out.ret[1].error # None

\* run replacing the stage's message by one of its own.
RunErrorReworded(err) == TypesError(Some("run failed"))

\* `return Result.Error(err)`
RunError(err) == TypesError(err)

\* `return Result.Ok(population)`
RunOk(pop) == TypesOk(Some(pop))

\* What run does when a stage failed: it returns the stage's error, or the
\* stage's exception goes through it.
RunFailure(out) == IF out.exc # None THEN out ELSE RunError(out.ret[1].error)

\* int(np.floor(population_size * recombination_rate))
CompetitionSize(c) == FloorTimes(c.population_size, c.recombination_rate)

\* The minimum evaluation of a population, None when it is empty.
Best(pop) == IF pop = <<>> THEN None ELSE Some(MinOf(Evaluations(pop)))

Value(out) == out.ret[1].value[1]

\* The history after a stage that made n calls of the generator, which
\* returned `draw`.  The first of two executions keeps the values drawn;
\* the second one reads them back in order.
Record(h, stage, n, draw) ==
    [h EXCEPT !.stages = Append(@, stage),
              !.drawn = @ + n,
              !.log = IF h.execution = 1 /\ n > 0
                      THEN Append(@, [stage |-> stage, draw |-> draw])
                      ELSE @,
              !.cursor = IF h.execution = 2 /\ n > 0 THEN @ + 1 ELSE @]

\* The values that the generator can return to a stage that makes n calls:
\* any of S, and in a second execution the ones it returned to the first.
Replayed(S, stage, n) ==
    IF hist.execution = 2 /\ n > 0
    THEN {d \in S : /\ hist.cursor <= Len(hist.log)
                    /\ hist.log[hist.cursor].stage = stage
                    /\ hist.log[hist.cursor].draw = d}
    ELSE S

Fail(stage, out, n, draw) ==
    /\ pc' = "done"
    /\ ret' = Some(RunFailure(out))
    /\ hist' = [Record(hist, stage, n, draw) EXCEPT
                    !.failed = IF out.exc # None THEN None
                               ELSE out.ret[1].error]

Pass(stage, next, n, draw) ==
    /\ pc' = next
    /\ ret' = ret
    /\ hist' = Record(hist, stage, n, draw)

\* lines 89-93
Initialize ==
    /\ pc = "initialize"
    /\ LET n == InitializeDrawCount(cfg.dim, cfg.boundaries, cfg.population_size)
       IN  \E sample \in Replayed(
                 IF cfg.boundaries[1] < cfg.boundaries[2] /\ cfg.population_size >= 0
                    /\ cfg.dim > 0
                 THEN Samples(cfg.boundaries, cfg.population_size, cfg.dim)
                 ELSE {<<>>}, "initialize", n) :
             LET out == initialize_population(sample, cfg.dim, cfg.boundaries,
                                              cfg.population_size)
             IN  IF Failed(out)
                 THEN Fail("initialize", out, n, sample) /\ UNCHANGED population
                 ELSE /\ population' = Value(out)
                      /\ pc' = "initial_evaluate"
                      /\ ret' = ret
                      /\ hist' = [Record(hist, "initialize", n, sample) EXCEPT
                                      !.initial = Value(out)]
    /\ UNCHANGED <<cfg, parents, children, mutated_children, gen, call>>

\* line 96
InitialEvaluate ==
    /\ pc = "initial_evaluate"
    /\ population' = Evaluate(cfg.func, population)
    /\ Pass("initial_evaluate", "initial_cut", 0, <<>>)
    /\ UNCHANGED <<cfg, parents, children, mutated_children, gen, call>>

\* lines 97-99
InitialCut ==
    /\ pc = "initial_cut"
    /\ LET out == select(population, cfg.population_size, "RANK",
                         cfg.n_competitors, [selected |-> <<>>, groups |-> <<>>])
       IN  IF Failed(out)
           THEN Fail("initial_cut", out, 0, <<>>) /\ UNCHANGED population
           ELSE /\ population' = Value(out)
                /\ pc' = "loop"
                /\ ret' = ret
                /\ hist' = [Record(hist, "initial_cut", 0, <<>>) EXCEPT
                                        !.best = Best(Value(out))]
    /\ UNCHANGED <<cfg, parents, children, mutated_children, gen, call>>

\* lines 104-112
SelectParents ==
    /\ pc = "loop"
    /\ gen < cfg.n_generations
    /\ \E draw \in Replayed(SelectDraws(population, CompetitionSize(cfg),
                                        cfg.selection_type, cfg.n_competitors),
                            "select",
                            SelectDrawCount(population, CompetitionSize(cfg),
                                            cfg.selection_type, cfg.n_competitors)) :
         /\ LET out == select(population, CompetitionSize(cfg), cfg.selection_type,
                              cfg.n_competitors, draw)
                n == SelectDrawCount(population, CompetitionSize(cfg),
                                     cfg.selection_type, cfg.n_competitors)
            IN  IF Failed(out)
                THEN Fail("select", out, n, draw) /\ UNCHANGED parents
                ELSE Pass("select", "recombine", n, draw) /\ parents' = Value(out)
         /\ population' = population_after_select(population, CompetitionSize(cfg),
                               cfg.selection_type, cfg.n_competitors, draw)
    /\ UNCHANGED <<cfg, children, mutated_children, gen, call>>

\* lines 114-116
Recombine ==
    /\ pc = "recombine"
    /\ LET n == RecombineDrawCount(cfg.recombination_method, parents, cfg.n_parents)
       IN  \E draw \in Replayed(RecombineDraws(cfg.recombination_method, parents,
                                               cfg.n_parents), "recombine", n) :
             LET out == recombine(cfg.recombination_method, parents, cfg.n_parents, draw)
             IN  IF Failed(out)
                 THEN Fail("recombine", out, n, draw) /\ UNCHANGED children
                 ELSE Pass("recombine", "append", n, draw) /\ children' = Value(out)
    /\ UNCHANGED <<cfg, population, parents, mutated_children, gen, call>>

\* line 118
AppendChildren ==
    /\ pc = "append"
    /\ population' = population \o children
    /\ Pass("append", "mutate", 0, <<>>)
    /\ UNCHANGED <<cfg, parents, children, mutated_children, gen, call>>

\* lines 122-124
Mutate ==
    /\ pc = "mutate"
    /\ \E draw \in Replayed(MutateDraws(cfg.mutation_method, population,
                                        cfg.mutation_rate),
                            "mutate",
                            MutateDrawCount(cfg.mutation_method, population,
                                            cfg.mutation_rate)) :
         /\ LET out == mutate(cfg.mutation_method, population, cfg.mutation_rate, draw)
                n == MutateDrawCount(cfg.mutation_method, population,
                                     cfg.mutation_rate)
            IN  IF Failed(out)
                THEN Fail("mutate", out, n, draw) /\ UNCHANGED mutated_children
                ELSE Pass("mutate", "merge", n, draw) /\ mutated_children' = Value(out)
         /\ population' = population_after_mutate(cfg.mutation_method, population,
                                                  cfg.mutation_rate, draw)
    /\ UNCHANGED <<cfg, parents, children, gen, call>>

\* lines 126-128
Merge ==
    /\ pc = "merge"
    /\ LET out == update_population(population, mutated_children)
       IN  IF Failed(out)
           THEN Fail("merge", out, 0, <<>>) /\ UNCHANGED population
           ELSE /\ population' = Value(out)
                /\ pc' = "evaluate"
                /\ ret' = ret
                /\ hist' = [Record(hist, "merge", 0, <<>>) EXCEPT
                      !.kept = \E i \in DOMAIN population :
                                  /\ hist.best = Some(population[i].evaluation)
                                  /\ i <= cfg.population_size
                                  /\ Value(out)[i] = population[i]]
    /\ UNCHANGED <<cfg, parents, children, mutated_children, gen, call>>

\* line 131
EvaluateAll ==
    /\ pc = "evaluate"
    /\ population' = Evaluate(cfg.func, population)
    /\ Pass("evaluate", "cut", 0, <<>>)
    /\ UNCHANGED <<cfg, parents, children, mutated_children, gen, call>>

\* lines 132-134, and the next value of i
RankCut ==
    /\ pc = "cut"
    /\ LET out == select(population, cfg.population_size, "RANK",
                         cfg.n_competitors, [selected |-> <<>>, groups |-> <<>>])
       IN  IF Failed(out)
           THEN Fail("cut", out, 0, <<>>) /\ UNCHANGED <<population, gen>>
           ELSE /\ population' = Value(out)
                /\ gen' = gen + 1
                /\ pc' = "loop"
                /\ ret' = ret
                /\ hist' = [Record(hist, "cut", 0, <<>>) EXCEPT
                                        !.best = Best(Value(out)),
                                        !.prev = hist.best]
    /\ UNCHANGED <<cfg, parents, children, mutated_children, call>>

\* line 136
Return ==
    /\ pc = "loop"
    /\ gen >= cfg.n_generations
    /\ pc' = "done"
    /\ ret' = Some(RunOk(population))
    /\ hist' = Record(hist, "return", 0, <<>>)
    /\ UNCHANGED <<cfg, population, parents, children, mutated_children, gen, call>>

(***************************************************************************)
(* The arguments of run that the model explores.                           *)
(***************************************************************************)
RunArgs(func, dim, boundaries, population_size, mutation_rate, recombination_rate, n_generations, selection_type, recombination_method, mutation_method, n_competitors, n_parents) ==
    [func |-> func, dim |-> dim, boundaries |-> boundaries,
     population_size |-> population_size, mutation_rate |-> mutation_rate,
     recombination_rate |-> recombination_rate,
     n_generations |-> n_generations, selection_type |-> selection_type,
     recombination_method |-> recombination_method,
     mutation_method |-> mutation_method, n_competitors |-> n_competitors,
     n_parents |-> n_parents]

\* A run of no generation: only the initial population matters.
NoGenerationArgs ==
    {RunArgs(f, 1, <<0, 1>>, ps, <<1, 3>>, <<1, 1>>, 0, "TOURNAMENT", "MEAN",
             "NORMAL", 1, 2) :
        f \in {"sum_of_squares", "negated_sum"}, ps \in 0 .. MaxPop}

\* Runs of one generation, over the selection types, the rates and the
\* recombination methods.
OneGenerationArgs ==
    {RunArgs("sum_of_squares", 1, <<0, 1>>, ps, mr, rr, 1, st, rm, "NORMAL", 1, 2) :
        ps \in 0 .. MaxPop,
        mr \in {<<0, 1>>, <<1, 3>>},
        rr \in {<<2, 3>>, <<1, 1>>},
        st \in {"TOURNAMENT", "RANK"},
        rm \in {"MEAN", "MIN"}}

\* Runs of more generations.
ManyGenerationsArgs ==
    {RunArgs(f, 1, <<0, 1>>, 2, <<1, 3>>, <<1, 1>>, ng, "RANK", rm, "UNIFORM", 1, 2) :
        f \in {"sum_of_squares", "negated_sum"},
        ng \in 2 .. MaxGen,
        rm \in {"MEAN", "MAX"}}

\* Arguments with which every stage can succeed.
GoodArgs == NoGenerationArgs \cup OneGenerationArgs \cup ManyGenerationsArgs

\* The same with one argument changed to a value that a stage rejects.
BadArgs ==
    LET base == RunArgs("sum_of_squares", 1, <<0, 1>>, MaxPop, <<1, 3>>,
                        <<1, 1>>, 1, "TOURNAMENT", "MEAN", "NORMAL", 1, 2)
    IN  {[base EXCEPT !.dim = 0],
         [base EXCEPT !.boundaries = <<1, 1>>],
         [base EXCEPT !.population_size = 0 - 1],
         [base EXCEPT !.mutation_rate = <<3, 2>>],
         [base EXCEPT !.mutation_rate = <<0 - 1, 2>>],
         [base EXCEPT !.recombination_rate = <<2, 1>>],
         [base EXCEPT !.selection_type = "ROULETTE"],
         [base EXCEPT !.selection_type = "OTHER"],
         [base EXCEPT !.recombination_method = "NONE"],
         [base EXCEPT !.mutation_method = "NONE"],
         [base EXCEPT !.n_competitors = 0],
         [base EXCEPT !.n_competitors = 2],
         [base EXCEPT !.n_competitors = MaxPop + 1],
         [base EXCEPT !.n_parents = 1],
         [base EXCEPT !.n_parents = MaxPop + 1],
         [base EXCEPT !.n_generations = 0, !.mutation_rate = <<3, 2>>]}

\* Arguments that no stage rejects although a rate is not a fraction of the
\* population: rank selection asked for more parents than there are.
OddArgs ==
    {RunArgs("sum_of_squares", 1, <<0, 1>>, MaxPop, <<1, 3>>, <<2, 1>>, 1,
             "RANK", "MEAN", "NORMAL", 1, 2)}

NoCall == [op |-> "none"]

\* The history at the start of an execution.  execution is 0 for a run on
\* its own, 1 and 2 for the first and the second of two executions that
\* are given the same arguments and the same values by the generator.
NoHistory(execution) ==
    [stages |-> <<>>, failed |-> None, initial |-> <<>>,
     best |-> None, prev |-> None, kept |-> FALSE,
     drawn |-> 0, execution |-> execution, log |-> <<>>, cursor |-> 1,
     first |-> None]

Entry(args, execution) ==
    /\ pc = "initialize"
    /\ cfg \in args
    /\ population = <<>>
    /\ parents = <<>>
    /\ children = <<>>
    /\ mutated_children = <<>>
    /\ gen = 0
    /\ ret = None
    /\ hist = NoHistory(execution)
    /\ call = NoCall

Init == Entry(GoodArgs \cup BadArgs \cup OddArgs, 0)

Next ==
    \/ Initialize
    \/ InitialEvaluate
    \/ InitialCut
    \/ SelectParents
    \/ Recombine
    \/ AppendChildren
    \/ Mutate
    \/ Merge
    \/ EvaluateAll
    \/ RankCut
    \/ Return

Spec == Init /\ [][Next]_vars

(***************************************************************************)
(* Two executions of run with the same arguments, the generator returning  *)
(* to the second the values it returned to the first.                      *)
(***************************************************************************)
TwiceArgs ==
    {RunArgs("sum_of_squares", 1, <<0, 1>>, 2, <<1, 3>>, <<1, 1>>, 1, st, "MEAN",
             "NORMAL", 1, 2) : st \in {"TOURNAMENT", "RANK"}}
    \cup {RunArgs("negated_sum", 1, <<0, 1>>, 2, <<0, 1>>, <<1, 1>>, 2,
                  "TOURNAMENT", "MAX", "UNIFORM", 1, 2),
          RunArgs("sum_of_squares", 1, <<0, 1>>, 2, <<3, 2>>, <<1, 1>>, 1,
                  "TOURNAMENT", "MEAN", "NORMAL", 1, 2)}

InitTwice == Entry(TwiceArgs, 1)

\* run is called again with the same arguments.
Restart ==
    /\ pc = "done"
    /\ hist.execution = 1
    /\ pc' = "initialize"
    /\ population' = <<>>
    /\ parents' = <<>>
    /\ children' = <<>>
    /\ mutated_children' = <<>>
    /\ gen' = 0
    /\ ret' = None
    /\ hist' = [NoHistory(2) EXCEPT
                    !.log = hist.log,
                    !.first = Some([ret |-> ret, stages |-> hist.stages,
                                    drawn |-> hist.drawn])]
    /\ UNCHANGED <<cfg, call>>

NextTwice ==
    \/ Next
    \/ Restart

SpecTwice == InitTwice /\ [][NextTwice]_vars

(***************************************************************************)
(* Properties of run.                                                      *)
(***************************************************************************)
Returns == ret # None /\ ret[1].exc = None

ReturnsOk == Returns /\ is_ok(ret[1].ret[1])

Returned_value == ret[1].ret[1].value[1]

AfterGeneration == pc = "loop" /\ gen >= 1

ParentsSelected == pc = "recombine"

GenerationStages ==
    <<"select", "recombine", "append", "mutate", "merge", "evaluate", "cut">>

RECURSIVE Generations(_)
Generations(n) == IF n <= 0 THEN <<>> ELSE GenerationStages \o Generations(n - 1)

\* The stages of a run of n generations in which no stage fails.
StagesOfRun(n) ==
    <<"initialize", "initial_evaluate", "initial_cut">> \o Generations(n)
        \o <<"return">>

IsPrefix(s, t) == Len(s) <= Len(t) /\ s = SubSeq(t, 1, Len(s))

Terminal == pc = "done"

\* C18: the stages of a run are executed in the order initialize, initial
\* evaluation, initial cut, then for each generation select, recombine,
\* append, mutate, merge, evaluate, cut; a run in which no stage fails
\* executes exactly n_generations generation steps and ends in Ok; a run
\* ends in Ok or in Error after at most n_generations generation steps, and
\* no stage executes after the end.
StagesInOrder ==
    /\ IsPrefix(hist.stages, StagesOfRun(cfg.n_generations))
    /\ gen <= cfg.n_generations
    /\ Terminal =>
          /\ ~ ENABLED Next
          /\ Returns
          /\ is_ok(ret[1].ret[1]) # is_error(ret[1].ret[1])
          /\ is_ok(ret[1].ret[1]) <=> hist.stages = StagesOfRun(cfg.n_generations)
          /\ is_ok(ret[1].ret[1]) => gen = cfg.n_generations

\* The same, of the runs that do not end by an exception.
StagesInOrderUnlessRaised ==
    /\ IsPrefix(hist.stages, StagesOfRun(cfg.n_generations))
    /\ gen <= cfg.n_generations
    /\ (Terminal /\ ret[1].exc = None) =>
          /\ ~ ENABLED Next
          /\ is_ok(ret[1].ret[1]) # is_error(ret[1].ret[1])
          /\ is_ok(ret[1].ret[1]) <=> hist.stages = StagesOfRun(cfg.n_generations)
          /\ is_ok(ret[1].ret[1]) => gen = cfg.n_generations

\* A run has ended by an exception of a stage.
RunRaised == Terminal /\ ret # None /\ ret[1].exc # None

\* A run of MaxGen generations has returned Ok.
FullRunWitness ==
    /\ ReturnsOk
    /\ cfg.n_generations = MaxGen
    /\ hist.stages = StagesOfRun(MaxGen)

\* Every run ends.
RunTerminates == <>Terminal

FairSpec == Spec /\ WF_vars(Next)

Fresh(pop) ==
    \A i \in DOMAIN pop : pop[i].evaluation = Fitness(cfg.func, pop[i].point)

Malformed(c) ==
    \/ c.dim <= 0
    \/ c.boundaries[1] >= c.boundaries[2]
    \/ c.population_size < 0
    \/ c.mutation_rate[1] < 0
    \/ c.mutation_rate[1] > c.mutation_rate[2]
    \/ /\ c.selection_type = "TOURNAMENT"
       /\ c.n_competitors < 1 \/ c.n_competitors > CompetitionSize(c)
    \/ c.n_parents < 2

\* C17: a run with a malformed parameter returns the validation error
\* before any value has been drawn from the generator, and it never returns
\* Ok.
ValidatedBeforeDraws ==
    Malformed(cfg) =>
        /\ hist.drawn = 0
        /\ Terminal => (Returns /\ is_error(ret[1].ret[1]))

\* What holds instead: the dimension, the boundaries and the size are
\* rejected before any draw.
InitializationValidatedBeforeDraws ==
    (cfg.dim <= 0 \/ cfg.boundaries[1] >= cfg.boundaries[2]
        \/ cfg.population_size < 0) =>
        /\ hist.drawn = 0
        /\ Terminal => (Returns /\ is_error(ret[1].ret[1]))

\* A run with a mutation rate above 1 has returned Ok.
MalformedRunReturnsOk == Malformed(cfg) /\ ReturnsOk

\* A run has rejected its mutation rate after values were drawn.
RejectedAfterDraws ==
    /\ hist.failed = Some("Invalid mutation rate")
    /\ hist.drawn > 0

SecondExecution == hist.execution = 2

ResultValues == {0, 1, 2, 3, 10, 123}

ResultErrors == {"An error occurred", "Error message", "Failed",
                 "Failure occurred", "Initialization failed", "Selection failed"}

Optional(S) == {None} \cup {Some(x) : x \in S}

\* Populations as initialize_population numbers them, of any evaluations.
NumberedPopulations ==
    UNION {{[i \in 1 .. n |-> Individual(i - 1, <<0>>, ev[i])] :
               ev \in Seqs({0, 1, 2}, n)} : n \in 0 .. MaxPop}

\* Populations in any order, indices repeated or not.
AnyPopulations ==
    UNION {Seqs({Individual(i, <<0>>, e) : i \in 0 .. MaxPop - 1, e \in {0, 1, 2}}, n) :
           n \in 0 .. MaxPop}

\* Populations and updates for the merge.
StorePopulations ==
    UNION {Seqs({Individual(i, <<p>>, 1) : i \in 0 .. MaxPop, p \in {0, Unit}}, n) :
           n \in 0 .. 2}

Idle ==
    /\ pc = "idle"
    /\ cfg = [func |-> "sum_of_squares"]
    /\ population = <<>>
    /\ parents = <<>>
    /\ children = <<>>
    /\ mutated_children = <<>>
    /\ gen = 0
    /\ ret = None
    /\ hist = [stages |-> <<>>]
    /\ call = NoCall

run_vars == <<pc, cfg, population, parents, children, mutated_children, gen,
              ret, hist>>

\* Result(value, error) of ga/types/result.py
CallTypesResult ==
    /\ call = NoCall
    /\ \E v \in Optional(ResultValues), e \in Optional(ResultErrors) :
         call' = [op |-> "ga.types.result.Result", value |-> v, error |-> e,
                  out |-> TypesResult(v, e)]
    /\ UNCHANGED run_vars

\* Result(value, error) of utils/result.py
CallUtilsResult ==
    /\ call = NoCall
    /\ \E v \in Optional(ResultValues), e \in Optional(ResultErrors) :
         call' = [op |-> "utils.result.Result", value |-> v, error |-> e,
                  out |-> UtilsResult(v, e)]
    /\ UNCHANGED run_vars

\* Result.Ok(value) and Result.Error(error) of both classes
CallOkOrError ==
    /\ call = NoCall
    /\ \/ \E v \in Optional(ResultValues) :
            \/ call' = [op |-> "ga.types.result.Result.Ok", value |-> v,
                        error |-> None, out |-> TypesOk(v)]
            \/ call' = [op |-> "utils.result.Result.Ok", value |-> v,
                        error |-> None, out |-> UtilsOk(v)]
       \/ \E e \in Optional(ResultErrors) :
            \/ call' = [op |-> "ga.types.result.Result.Error", value |-> None,
                        error |-> e, out |-> TypesError(e)]
            \/ call' = [op |-> "utils.result.Result.Error", value |-> None,
                        error |-> e, out |-> UtilsError(e)]
    /\ UNCHANGED run_vars

CallUpdatePopulation ==
    /\ call = NoCall
    /\ \E pop \in StorePopulations, updates \in StorePopulations :
         call' = [op |-> "update_population", pop |-> pop, updates |-> updates,
                  out |-> update_population(pop, updates),
                  after |-> population_after_update(pop, updates)]
    /\ UNCHANGED run_vars

CallTournamentSelection ==
    /\ call = NoCall
    /\ \E pop \in NumberedPopulations,
          competition_size \in 0 - 1 .. MaxPop + 1,
          n_competitors \in 0 .. MaxPop + 1 :
         \E draw \in TournamentDraws(pop, competition_size, n_competitors) :
           call' = [op |-> "tournament_selection", pop |-> pop,
                    competition_size |-> competition_size,
                    n_competitors |-> n_competitors, draw |-> draw,
                    out |-> tournament_selection(pop, competition_size,
                                                 n_competitors, draw),
                    after |-> population_after_tournament_selection(
                                  pop, competition_size, n_competitors, draw)]
    /\ UNCHANGED run_vars

CallRankSelection ==
    /\ call = NoCall
    /\ \E pop \in AnyPopulations, competition_size \in 0 .. MaxPop + 1 :
         call' = [op |-> "rank_selection", pop |-> pop,
                  competition_size |-> competition_size,
                  out |-> rank_selection(pop, competition_size),
                  after |-> population_after_rank_selection(pop, competition_size)]
    /\ UNCHANGED run_vars

InitBoundaries == {<<0, 1>>, <<0, 2>>, <<1, 1>>, <<1, 0>>}

InitDims == {0 - 1, 0, 1, 2}

CallInitializePopulation ==
    /\ call = NoCall
    /\ \E dim \in InitDims, boundaries \in InitBoundaries,
          population_size \in 0 - 1 .. MaxPop :
         \E sample \in
               IF boundaries[1] < boundaries[2] /\ population_size >= 0 /\ dim > 0
               THEN Samples(boundaries, population_size, dim)
               ELSE {<<>>} :
           call' = [op |-> "initialize_population", dim |-> dim,
                    boundaries |-> boundaries,
                    population_size |-> population_size, sample |-> sample,
                    out |-> initialize_population(sample, dim, boundaries,
                                                  population_size)]
    /\ UNCHANGED run_vars

\* One population of each size, of distinct points and evaluations.
MutatePopulations ==
    {[i \in 1 .. n |-> Individual(i - 1, <<i * Unit>>, i)] : n \in 0 .. MaxPop}

MutateRates == {<<0 - 1, 2>>, <<0, 1>>, <<1, 3>>, <<1, 2>>, <<1, 1>>, <<3, 2>>}

CallMutate ==
    /\ call = NoCall
    /\ \E method \in MutationMethods \cup {"invalid_method"},
          pop \in MutatePopulations, mutation_rate \in MutateRates :
         \E draw \in MutateDraws(method, pop, mutation_rate) :
           call' = [op |-> "mutate", method |-> method, pop |-> pop,
                    mutation_rate |-> mutation_rate, draw |-> draw,
                    out |-> mutate(method, pop, mutation_rate, draw),
                    after |-> population_after_mutate(method, pop,
                                                      mutation_rate, draw)]
    /\ UNCHANGED run_vars

CallRecombine ==
    /\ call = NoCall
    /\ \E method \in RecombinationMethods \cup {"invalid_method"},
          prts \in MutatePopulations, n_parents \in 0 .. MaxPop + 1 :
         \E draw \in RecombineDraws(method, prts, n_parents) :
           call' = [op |-> "recombine", method |-> method, parents |-> prts,
                    n_parents |-> n_parents, draw |-> draw,
                    out |-> recombine(method, prts, n_parents, draw)]
    /\ UNCHANGED run_vars

NextCall ==
    \/ CallTypesResult
    \/ CallUtilsResult
    \/ CallOkOrError
    \/ CallUpdatePopulation
    \/ CallTournamentSelection
    \/ CallRankSelection
    \/ CallInitializePopulation
    \/ CallMutate
    \/ CallRecombine

SpecCalls == Idle /\ [][NextCall]_vars

(***************************************************************************)
(* Properties of the library's functions.                                  *)
(***************************************************************************)
Called(op) == call.op = op

CallReturned == call.out.exc = None

CallResult == call.out.ret[1]

CallOk == CallReturned /\ CallResult.error = None /\ CallResult.value # None

CallError(msg) ==
    CallReturned /\ CallResult = [value |-> None, error |-> Some(msg)]

ResultOps ==
    {"ga.types.result.Result", "ga.types.result.Result.Ok",
     "ga.types.result.Result.Error", "utils.result.Result",
     "utils.result.Result.Ok", "utils.result.Result.Error"}

\* C5: every Result that is constructed holds exactly one of value and
\* error: is_ok() and is_error() are never both true and never both false.
ResultHoldsExactlyOne ==
    (call.op \in ResultOps /\ CallReturned) =>
        is_ok(CallResult) # is_error(CallResult)

\* C6: update_population is all-or-nothing.  If an update has an index that
\* no individual of the population has, the call returns the error
\* "Invalid indices in new values" and the population is as it was;
\* otherwise every individual whose index an update has is replaced by an
\* update of that index, and every other individual is unchanged.
MergeAllOrNothing ==
    Called("update_population") =>
        IF \E k \in DOMAIN call.updates :
               \A i \in DOMAIN call.pop : call.pop[i].index # call.updates[k].index
        THEN /\ CallError("Invalid indices in new values")
             /\ call.after = call.pop
        ELSE /\ CallOk
             /\ Len(CallResult.value[1]) = Len(call.pop)
             /\ \A i \in DOMAIN call.pop :
                  IF \E k \in DOMAIN call.updates :
                         call.updates[k].index = call.pop[i].index
                  THEN \E k \in DOMAIN call.updates :
                         /\ call.updates[k].index = call.pop[i].index
                         /\ CallResult.value[1][i] = call.updates[k]
                  ELSE CallResult.value[1][i] = call.pop[i]

\* A call with one update that matches and one that does not has failed and
\* left the population as it was.
MergeWitness ==
    /\ Called("update_population")
    /\ Len(call.updates) = 2
    /\ call.updates[1].index \in Indices(call.pop)
    /\ call.updates[1] \notin Range(call.pop)
    /\ call.updates[2].index \notin Indices(call.pop)
    /\ CallError("Invalid indices in new values")
    /\ call.after = call.pop

\* C7: when tournament selection succeeds it returns one winner for each of
\* floor(competition_size / n_competitors) groups; the groups are pairwise
\* disjoint sets of n_competitors distinct individuals of the population,
\* drawn from the competition_size selected ones, and each winner is a
\* member of its group whose evaluation is at most that of every member.
TournamentWinners ==
    (Called("tournament_selection") /\ CallOk) =>
        LET groups == call.draw.groups
            winners == CallResult.value[1]
            n == call.competition_size \div call.n_competitors
        IN  /\ call.n_competitors * n <= call.competition_size
            /\ call.n_competitors * (n + 1) > call.competition_size
            /\ Len(winners) = n
            /\ Len(groups) = n
            /\ Cardinality(Range(call.draw.selected)) = call.competition_size
            /\ \A g \in DOMAIN groups :
                 /\ Range(groups[g]) \subseteq Range(call.draw.selected)
                 /\ Range(groups[g]) \subseteq DOMAIN call.pop
                 /\ Cardinality(Range(groups[g])) = call.n_competitors
                 /\ \A h \in DOMAIN groups :
                      g # h => Range(groups[g]) \cap Range(groups[h]) = {}
                 /\ \E p \in Range(groups[g]) :
                      /\ winners[g] = call.pop[p]
                      /\ \A q \in Range(groups[g]) :
                           winners[g].evaluation <= call.pop[q].evaluation

\* A tournament of three drawn individuals in groups of two has returned one
\* winner, which is not the first member of its group, and has discarded
\* the third.
TournamentWitness ==
    /\ Called("tournament_selection")
    /\ CallOk
    /\ call.competition_size = 3
    /\ call.n_competitors = 2
    /\ Len(CallResult.value[1]) = 1
    /\ CallResult.value[1][1] = call.pop[call.draw.groups[1][2]]
    /\ CallResult.value[1][1] # call.pop[call.draw.groups[1][1]]

\* C8: tournament selection returns an error if and only if
\* competition_size > |population| or competition_size < n_competitors, for
\* every competition_size and n_competitors; when both hold the error is
\* "Competition size larger than population"; otherwise it returns Ok.
TournamentFailsIff ==
    Called("tournament_selection") =>
        LET large == call.competition_size > Len(call.pop)
            few == call.competition_size < call.n_competitors
        IN  /\ large => CallError("Competition size larger than population")
            /\ (few /\ ~large) =>
                   CallError("Not enough competitors to form a single group")
            /\ (~large /\ ~few) => CallOk

\* C9: rank selection never fails: it returns the min(k, |pop|) individuals
\* of pop with the smallest evaluations, in ascending order of evaluation;
\* k = 0 gives the empty population and k > |pop| the whole population.
RankIsAscendingTruncation ==
    Called("rank_selection") =>
        /\ CallOk
        /\ LET r == CallResult.value[1]
               k == call.competition_size
               n == Len(call.pop)
           IN  /\ Len(r) = IF k < n THEN k ELSE n
               /\ \A i, j \in DOMAIN r : i < j => r[i].evaluation <= r[j].evaluation
               /\ \E f \in InjSeqs(DOMAIN call.pop, Len(r)) :
                    /\ \A i \in DOMAIN r : r[i] = call.pop[f[i]]
                    /\ \A p \in DOMAIN call.pop \ Range(f) : \A i \in DOMAIN r :
                         r[i].evaluation <= call.pop[p].evaluation

\* Rank selection has cut an unsorted population, leaving out an individual
\* of greater evaluation that came first in it.
RankWitness ==
    /\ Called("rank_selection")
    /\ CallOk
    /\ Len(call.pop) = MaxPop
    /\ call.competition_size = MaxPop - 1
    /\ Len(CallResult.value[1]) = MaxPop - 1
    /\ call.pop[1] \notin Range(CallResult.value[1])
    /\ CallResult.value[1][1] = call.pop[MaxPop]

ValidInitArgs ==
    /\ call.boundaries[1] < call.boundaries[2]
    /\ call.population_size >= 0
    /\ call.dim > 0

InitializeEmptyWitness ==
    /\ Called("initialize_population")
    /\ call.population_size = 0
    /\ CallOk
    /\ CallResult.value[1] = <<>>

CallFailed == CallReturned /\ CallResult.error # None /\ CallResult.value = None

MutateReturnsFloorSubset ==
    (Called("mutate") /\ CallOk) =>
        LET r == CallResult.value[1]
            n == Len(call.pop)
            num == call.mutation_rate[1]
            den == call.mutation_rate[2]
        IN  /\ Len(r) * den <= n * num
            /\ (Len(r) + 1) * den > n * num
            /\ \E f \in InjSeqs(DOMAIN call.pop, Len(r)) :
                 \A i \in DOMAIN r :
                     /\ r[i].index = call.pop[f[i]].index
                     /\ r[i].evaluation = 0
                     /\ Len(r[i].point) = Len(call.pop[f[i]].point)
            /\ num = 0 => r = <<>>
            /\ num = den => Len(r) = n /\ Indices(r) = Indices(call.pop)

\* Half of a full population has been mutated: the last individual is among
\* the result, with another point and its evaluation reset, and the first
\* is not.
MutateWitness ==
    /\ Called("mutate")
    /\ CallOk
    /\ Len(call.pop) = MaxPop
    /\ call.mutation_rate = <<1, 2>>
    /\ Len(CallResult.value[1]) = MaxPop \div 2
    /\ CallResult.value[1][1].index = call.pop[MaxPop].index
    /\ CallResult.value[1][1].point # call.pop[MaxPop].point
    /\ call.pop[MaxPop].evaluation # 0
    /\ CallResult.value[1][1].evaluation = 0
    /\ call.pop[1].index \notin Indices(CallResult.value[1])

\* C13: mutate returns an error if and only if the method is not one of the
\* three mutation methods, or the rate is outside [0, 1], or the population
\* is empty; the method is checked before the rate and the rate before the
\* population.
MutateFailsIff ==
    Called("mutate") =>
        LET bad_method == call.method \notin {"NORMAL", "STANDART", "UNIFORM"}
            bad_rate == \/ call.mutation_rate[1] < 0
                        \/ call.mutation_rate[1] > call.mutation_rate[2]
            empty == call.pop = <<>>
        IN  /\ bad_method => CallError("Invalid mutation method")
            /\ (~bad_method /\ bad_rate) => CallError("Invalid mutation rate")
            /\ (~bad_method /\ ~bad_rate /\ empty) =>
                   CallError("Population must contain at least one individual")
            /\ (~bad_method /\ ~bad_rate /\ ~empty) => CallOk

\* A call in which the three checks would all fail has reported the method.
MutateFailsWitness ==
    /\ Called("mutate")
    /\ call.method = "invalid_method"
    /\ call.mutation_rate = <<3, 2>>
    /\ call.pop = <<>>
    /\ CallError("Invalid mutation method")

\* C14: recombine fails if and only if the method is not recognized, or
\* n_parents < 2, or |parents| < 2, or n_parents > |parents|; the first of
\* these conditions that holds, in this order, decides the error; on
\* success there is at least one child and every child has evaluation 0.
RecombineFailsIff ==
    Called("recombine") =>
        LET bad_method == call.method \notin {"MEAN", "MAX", "MIN"}
            few_parents == call.n_parents < 2
            small == Len(call.parents) < 2
            exceeds == call.n_parents > Len(call.parents)
        IN  /\ bad_method => CallError("Invalid recombination method")
            /\ (~bad_method /\ few_parents) =>
                   CallError("Number of parents must be at least 2")
            /\ (~bad_method /\ ~few_parents /\ small) =>
                   CallError("Selected population must contain at least 2 individuals")
            /\ (~bad_method /\ ~few_parents /\ ~small /\ exceeds) =>
                   CallError("Number of parents exceeds selected population size")
            /\ (~bad_method /\ ~few_parents /\ ~small /\ ~exceeds) =>
                   /\ CallOk
                   /\ Len(CallResult.value[1]) >= 1
                   /\ \A k \in DOMAIN CallResult.value[1] :
                        CallResult.value[1][k].evaluation = 0

\* One parent asked of one selected individual: too few parents is reported,
\* not the small population.
RecombineWitness ==
    /\ Called("recombine")
    /\ call.method = "MEAN"
    /\ call.n_parents = 1
    /\ Len(call.parents) = 1
    /\ CallError("Number of parents must be at least 2")

RunFrame ==
    [][(pc \in {"loop", "recombine", "mutate", "done"}) => (population' = population)]_vars

====
